---- MODULE Spec2Model ----
(***************************************************************************)
(* A model of pandas/util/_test_decorators.py: the capability probe        *)
(* safe_import, the predicate helpers _skip_if_*, the decorator factory    *)
(* skip_if_no and the static skip markers built when the module is loaded. *)
(*                                                                         *)
(* Strings that the code inspects character by character (version strings) *)
(* are sequences of one-character strings.  Python values a helper can     *)
(* return (None, True, False, a module object) or raise are records        *)
(* [kind, val].                                                            *)
(***************************************************************************)
EXTENDS Integers, Sequences, FiniteSets, TLC

VARIABLES
    importable,   \* the module names __import__ can import right now
    version,      \* module name -> its __version__ attribute (or absent)
    lang,         \* locale.getlocale()[0]
    PY3,          \* pandas.compat.PY3
    is32,         \* is_platform_32bit()
    isWin,        \* is_platform_windows()
    backend,      \* matplotlib's configured backend
    useCalls,     \* how many times mod.use("Agg", warn=False) has run
    loaded,       \* "no", "yes" or "failed": the module-level code has run
    markers,      \* the module-level skip markers, name -> [cond, reason]
    lastOp,       \* the operation that ran last
    args,         \* the arguments of the last safe_import / skip_if_no call
    ret,          \* what the last operation returned or raised
    attempts,     \* the names the last operation handed to __import__
    testMark,     \* the skipif mark attached to the decorated test, if any
    testState,    \* "new", "decorated", "skipped", "executed"
    probeCalls,   \* how many times skip_if_no's decorator called safe_import
    decoCalls     \* how many times skip_if_no's decorator was applied

vars == <<importable, version, lang, PY3, is32, isWin, backend, useCalls,
          loaded, markers, lastOp, args, ret, attempts, testMark, testState,
          probeCalls, decoCalls>>

envVars == <<importable, version, lang, PY3, is32, isWin>>

----------------------------------------------------------------------------
(* Bounds *)

\* Longest version string drawn as an input of safe_import.
MaxLen == 3
\* How many mod.use calls, helper calls and decorations a behaviour counts.
MaxCalls == 2

----------------------------------------------------------------------------
(* Python values *)

None == [kind |-> "None", val |-> ""]
True == [kind |-> "True", val |-> ""]
False == [kind |-> "False", val |-> ""]
Module(name) == [kind |-> "module", val |-> name]
Raise(exc) == [kind |-> "raise", val |-> exc]

\* bool(x) for the values above; a raised exception is not a value.
Truthy(x) == x.kind \in {"True", "module"}

\* A string-valued argument or attribute: a missing attribute, None, or a str.
NoAttr == [kind |-> "absent", s |-> <<>>]
NoneStr == [kind |-> "None", s |-> <<>>]
Str(s) == [kind |-> "str", s |-> s]
\* bool(x) of None or a str: only a non-empty str is truthy.
TruthyStr(x) == x.kind = "str" /\ x.s # <<>>

\* locale.getlocale()[0]: None or a language name.
LangNone == [kind |-> "None", name |-> ""]
Lang(n) == [kind |-> "str", name |-> n]
\* "{lang}".format(lang=l)
FormatLang(l) == IF l.kind = "None" THEN "None" ELSE l.name

----------------------------------------------------------------------------
(* distutils.version.LooseVersion, as safe_import and _skip_if_mpl_1_5 use  *)
(* it: parse splits on  (\d+ | [a-z]+ | \.) , drops the dots and the empty  *)
(* pieces and turns the digit runs into integers; comparison is Python's    *)
(* list comparison of the components.                                       *)

Digits == {"0", "1", "2", "3", "4", "5", "6", "7", "8", "9"}
Lower == {"a", "b", "c", "d", "e", "f", "r", "v", "x"}

DigitVal(c) ==
    CASE c = "0" -> 0 [] c = "1" -> 1 [] c = "2" -> 2 [] c = "3" -> 3
      [] c = "4" -> 4 [] c = "5" -> 5 [] c = "6" -> 6 [] c = "7" -> 7
      [] c = "8" -> 8 [] c = "9" -> 9

\* ord(c) of the characters the model draws.
Ord(c) ==
    CASE c \in Digits -> 48 + DigitVal(c)
      [] c = "+" -> 43 [] c = "-" -> 45 [] c = "." -> 46
      [] c = "a" -> 97 [] c = "b" -> 98 [] c = "c" -> 99 [] c = "d" -> 100
      [] c = "e" -> 101 [] c = "f" -> 102 [] c = "r" -> 114
      [] c = "v" -> 118 [] c = "x" -> 120

\* Which alternative of component_re a character belongs to; "other" is a
\* character no alternative matches, which re.split leaves between matches.
Class(c) ==
    IF c \in Digits THEN "digit"
    ELSE IF c \in Lower THEN "lower"
    ELSE IF c = "." THEN "dot"
    ELSE "other"

\* The length of the longest prefix of s whose characters are all of class k.
RECURSIVE RunLen(_, _)
RunLen(s, k) ==
    IF s = <<>> \/ Class(Head(s)) # k THEN 0 ELSE 1 + RunLen(Tail(s), k)

\* int(run) of a run of digits.
RECURSIVE IntOf(_)
IntOf(run) ==
    IF run = <<>> THEN 0
    ELSE 10 * IntOf(SubSeq(run, 1, Len(run) - 1)) + DigitVal(run[Len(run)])

IntComp(n) == [k |-> "int", n |-> n, s |-> <<>>]
StrComp(s) == [k |-> "str", n |-> 0, s |-> s]

\* LooseVersion.parse: the list of components of a version string.
RECURSIVE Parse(_)
Parse(vstring) ==
    IF vstring = <<>> THEN <<>>
    ELSE LET k == Class(Head(vstring))
             n == RunLen(vstring, k)
             run == SubSeq(vstring, 1, n)
             rest == SubSeq(vstring, n + 1, Len(vstring))
         IN  IF k = "dot" THEN Parse(Tail(vstring))
             ELSE IF k = "digit" THEN <<IntComp(IntOf(run))>> \o Parse(rest)
             ELSE <<StrComp(run)>> \o Parse(rest)

\* Python's comparison of two str objects: "lt", "eq" or "gt".
RECURSIVE StrCmp(_, _)
StrCmp(a, b) ==
    IF a = <<>> /\ b = <<>> THEN "eq"
    ELSE IF a = <<>> THEN "lt"
    ELSE IF b = <<>> THEN "gt"
    ELSE IF Ord(Head(a)) < Ord(Head(b)) THEN "lt"
    ELSE IF Ord(Head(a)) > Ord(Head(b)) THEN "gt"
    ELSE StrCmp(Tail(a), Tail(b))

\* The comparison of two components that differ.  An int against a str is a
\* TypeError on Python 3; on Python 2 every int sorts before every str.
ElemCmp(x, y, py3) ==
    IF x.k = "int" /\ y.k = "int" THEN (IF x.n < y.n THEN "lt" ELSE "gt")
    ELSE IF x.k = "str" /\ y.k = "str" THEN StrCmp(x.s, y.s)
    ELSE IF py3 THEN "TypeError"
    ELSE IF x.k = "int" THEN "lt" ELSE "gt"

\* Python's list comparison: the first pair of components that differ
\* decides; with none, the shorter list is the smaller.
RECURSIVE ListCmp(_, _, _)
ListCmp(a, b, py3) ==
    IF a = <<>> /\ b = <<>> THEN "eq"
    ELSE IF a = <<>> THEN "lt"
    ELSE IF b = <<>> THEN "gt"
    ELSE IF Head(a) = Head(b) THEN ListCmp(Tail(a), Tail(b), py3)
    ELSE ElemCmp(Head(a), Head(b), py3)

\* LooseVersion(a) <op> LooseVersion(b): "lt", "eq", "gt" or "TypeError".
LooseCmp(a, b, py3) == ListCmp(Parse(a), Parse(b), py3)

----------------------------------------------------------------------------
(* The modules the model imports by name *)

Mpl == "matplotlib"
ScipyStats == "scipy.stats"
ScipySparse == "scipy.sparse"
ScipyInterpolate == "scipy.interpolate"
\* A package a test author names in skip_if_no / safe_import.
Pkg == "pkg"

LibModules == {Mpl, ScipyStats, ScipySparse, ScipyInterpolate}
Modules == LibModules \cup {Pkg}

\* __import__("a.b") returns the top-level package a.
TopLevel(name) ==
    IF name \in {ScipyStats, ScipySparse, ScipyInterpolate} THEN "scipy"
    ELSE name

\* "1.4.3", the version _skip_if_mpl_1_5 compares with.
Mpl143 == <<"1", ".", "4", ".", "3">>

----------------------------------------------------------------------------
(* safe_import *)

\* A safe_import whose import never fails.
SafeImportAlways(mod_name, min_version) == Module(TopLevel(mod_name))

\* safe_import(mod_name, min_version): the module, False, or the exception
\* that leaves it.
SafeImport(mod_name, min_version) ==
    IF mod_name \notin importable THEN False
    ELSE IF ~TruthyStr(min_version) THEN Module(TopLevel(mod_name))
    ELSE IF version[mod_name].kind = "absent" THEN Raise("AttributeError")
    ELSE IF TruthyStr(version[mod_name])
         THEN LET c == LooseCmp(version[mod_name].s, min_version.s, PY3)
              IN  IF c = "TypeError" THEN Raise("TypeError")
                  ELSE IF c \in {"gt", "eq"} THEN Module(TopLevel(mod_name))
                  ELSE False
    ELSE False

----------------------------------------------------------------------------
(* The predicate helpers.  A helper's outcome is what it returns (or        *)
(* raises), the backend it leaves configured, how many times it called      *)
(* mod.use, and the names it handed to __import__, in order.                *)

Outcome(r, b, u, a) == [ret |-> r, backend |-> b, uses |-> u, attempts |-> a]

\* A _skip_if_no_mpl that configures the backend before it looks at the
\* import's result.
SkipIfNoMplEager(cur) ==
    LET mod == SafeImport(Mpl, NoneStr)
    IN  Outcome(IF Truthy(mod) THEN None ELSE True, "Agg", 1, <<Mpl>>)

\* _skip_if_no_mpl()
SkipIfNoMpl(cur) ==
    LET mod == SafeImport(Mpl, NoneStr)
    IN  IF Truthy(mod) THEN Outcome(None, "Agg", 1, <<Mpl>>)
        ELSE Outcome(True, cur, 0, <<Mpl>>)

\* A _skip_if_mpl_1_5 that asks for another backend than _skip_if_no_mpl.
SkipIfMpl15OtherBackend(cur) ==
    IF Truthy(SafeImport(Mpl, NoneStr)) THEN Outcome(None, "TkAgg", 1, <<Mpl>>)
    ELSE Outcome(None, cur, 0, <<Mpl>>)

\* A _skip_if_mpl_1_5 that compares with >= where the code has >.
SkipIfMpl15Ge(cur) ==
    LET v == version[Mpl]
        c == LooseCmp(v.s, Mpl143, PY3)
    IN  IF ~Truthy(SafeImport(Mpl, NoneStr)) THEN Outcome(None, cur, 0, <<Mpl>>)
        ELSE IF c \in {"gt", "eq"} \/ v.s[1] = "0"
             THEN Outcome(True, cur, 0, <<Mpl>>)
        ELSE Outcome(None, "Agg", 1, <<Mpl>>)

\* _skip_if_mpl_1_5()
SkipIfMpl15(cur) ==
    LET mod == SafeImport(Mpl, NoneStr)
        v == version[Mpl]
        c == LooseCmp(v.s, Mpl143, PY3)
    IN  IF ~Truthy(mod) THEN Outcome(None, cur, 0, <<Mpl>>)
        ELSE IF v.kind # "str"
             THEN Outcome(Raise("AttributeError"), cur, 0, <<Mpl>>)
        ELSE IF c = "TypeError"
             THEN Outcome(Raise("TypeError"), cur, 0, <<Mpl>>)
        ELSE IF c = "gt" THEN Outcome(True, cur, 0, <<Mpl>>)
        ELSE IF v.s = <<>>
             THEN Outcome(Raise("IndexError"), cur, 0, <<Mpl>>)
        ELSE IF v.s[1] = "0" THEN Outcome(True, cur, 0, <<Mpl>>)
        ELSE Outcome(None, "Agg", 1, <<Mpl>>)

\* _skip_if_has_locale()
SkipIfHasLocale == IF lang # LangNone THEN True ELSE None

\* A _skip_if_not_us_locale that takes an unset locale for the US one.
SkipIfNotUsLocaleUnset ==
    IF lang # LangNone /\ lang # Lang("en_US") THEN True ELSE None

\* _skip_if_not_us_locale()
SkipIfNotUsLocale == IF lang # Lang("en_US") THEN True ELSE None

\* A _skip_if_no_scipy that is content with any one of the three.
SkipIfNoScipyAny ==
    LET a == SafeImport(ScipyStats, NoneStr)
        b == SafeImport(ScipySparse, NoneStr)
        c == SafeImport(ScipyInterpolate, NoneStr)
    IN  IF Truthy(a) THEN [ret |-> False, attempts |-> <<ScipyStats>>]
        ELSE IF Truthy(b)
             THEN [ret |-> False, attempts |-> <<ScipyStats, ScipySparse>>]
        ELSE [ret |-> IF Truthy(c) THEN False ELSE True,
              attempts |-> <<ScipyStats, ScipySparse, ScipyInterpolate>>]

\* _skip_if_no_scipy(): Python's `and` stops at the first falsy operand.
SkipIfNoScipy ==
    LET a == SafeImport(ScipyStats, NoneStr)
        b == SafeImport(ScipySparse, NoneStr)
        c == SafeImport(ScipyInterpolate, NoneStr)
    IN  IF ~Truthy(a) THEN [ret |-> True, attempts |-> <<ScipyStats>>]
        ELSE IF ~Truthy(b)
             THEN [ret |-> True, attempts |-> <<ScipyStats, ScipySparse>>]
        ELSE [ret |-> IF Truthy(c) THEN False ELSE True,
              attempts |-> <<ScipyStats, ScipySparse, ScipyInterpolate>>]

\* True / False for a Python bool.
PyBool(b) == IF b THEN True ELSE False

----------------------------------------------------------------------------
(* The module-level skip markers: pytest.mark.skipif(cond, reason=...)      *)

MarkerNames ==
    {"skip_if_no_mpl", "skip_if_mpl_1_5", "skip_if_32bit", "skip_if_windows",
     "skip_if_windows_python_3", "skip_if_has_locale",
     "skip_if_not_us_locale", "skip_if_no_scipy"}

SkipIf(cond, reason) == [cond |-> cond, reason |-> reason]
Unset == SkipIf(None, <<>>)
NoMarkers == [m \in MarkerNames |-> Unset]

\* The markers lines 136-155 build, given what the two matplotlib helpers
\* returned.
BuildMarkers(r1, r2) ==
    [m \in MarkerNames |->
        CASE m = "skip_if_no_mpl" ->
                SkipIf(r1, <<"Missing matplotlib dependency">>)
          [] m = "skip_if_mpl_1_5" -> SkipIf(r2, <<"matplotlib 1.5">>)
          [] m = "skip_if_32bit" ->
                SkipIf(PyBool(is32), <<"skipping for 32 bit">>)
          [] m = "skip_if_windows" ->
                SkipIf(PyBool(isWin), <<"Running on Windows">>)
          [] m = "skip_if_windows_python_3" ->
                SkipIf(PyBool(isWin /\ PY3), <<"not used on python3/win32">>)
          [] m = "skip_if_has_locale" ->
                SkipIf(SkipIfHasLocale,
                       <<"Specific locale is set ", FormatLang(lang)>>)
          [] m = "skip_if_not_us_locale" ->
                SkipIf(SkipIfNotUsLocale,
                       <<"Specific locale is set ", FormatLang(lang)>>)
          [] m = "skip_if_no_scipy" ->
                SkipIf(SkipIfNoScipy.ret, <<"Missing SciPy requirement">>)]

----------------------------------------------------------------------------
(* Inputs *)

\* The characters version strings are drawn from: digits, a letter, the dot
\* and a character component_re does not match.
Alphabet == {"0", "1", "2", ".", "a", "-"}

\* Every string over Alphabet of at most n characters.
Strings(n) == UNION {[1..k -> Alphabet] : k \in 0..n}

\* The matplotlib versions the environment can hold.
MplVersions ==
    {<<"0", ".", "9">>, Mpl143, <<"1", ".", "1", "0">>}

\* The versions of Pkg, and the floors test authors ask for, where the
\* decorator's life cycle is explored.
PkgVersions == {NoAttr, Str(<<"1", ".", "2">>), Str(<<"1", ".", "1", "0">>)}
Floors == {NoneStr, Str(<<"1", ".", "2">>), Str(<<"1", ".", "3">>)}

\* The platforms a behaviour starts on: (is_platform_32bit(),
\* is_platform_windows(), PY3).
Platforms ==
    {<<FALSE, FALSE, TRUE>>, <<TRUE, FALSE, FALSE>>, <<FALSE, TRUE, TRUE>>,
     <<TRUE, TRUE, FALSE>>}

Langs == {LangNone, Lang("en_US"), Lang("de_DE")}

\* The calls of safe_import on the libraries that the model explores.
LibCalls ==
    {[name |-> Mpl, min |-> NoneStr], [name |-> Mpl, min |-> Str(Mpl143)],
     [name |-> ScipyStats, min |-> NoneStr]}

NoArgs == [name |-> "", min |-> NoneStr]
CallArgs(name, min) == [name |-> name, min |-> min]

\* What the test runner did with a test.
Skipped == [kind |-> "skipped", val |-> ""]
Executed == [kind |-> "executed", val |-> ""]

----------------------------------------------------------------------------
(* The environment, which changes behind the module's back *)

EnvStep ==
    /\ lastOp' = "env" /\ args' = NoArgs /\ ret' = None /\ attempts' = <<>>
    /\ UNCHANGED <<PY3, is32, isWin, backend, useCalls, loaded, markers,
                   testMark, testState, probeCalls, decoCalls>>

Install(m) ==
    /\ m \notin importable
    /\ importable' = importable \cup {m}
    /\ UNCHANGED <<version, lang>>
    /\ EnvStep

Uninstall(m) ==
    /\ m \in importable
    /\ importable' = importable \ {m}
    /\ UNCHANGED <<version, lang>>
    /\ EnvStep

SetVersion(m, v) ==
    /\ version[m] # v
    /\ version' = [version EXCEPT ![m] = v]
    /\ UNCHANGED <<importable, lang>>
    /\ EnvStep

SetLocale(l) ==
    /\ lang # l
    /\ lang' = l
    /\ UNCHANGED <<importable, version>>
    /\ EnvStep

----------------------------------------------------------------------------
(* Module load: lines 136-155 run once, top to bottom *)

Load ==
    /\ loaded = "no"
    /\ LET o1 == SkipIfNoMpl(backend)
           o2 == SkipIfMpl15(o1.backend)
       IN  /\ backend' = o2.backend
           /\ useCalls' = useCalls + o1.uses + o2.uses
           /\ attempts' = o1.attempts \o o2.attempts \o SkipIfNoScipy.attempts
           /\ IF o2.ret.kind = "raise"
              THEN loaded' = "failed" /\ markers' = markers /\ ret' = o2.ret
              ELSE /\ loaded' = "yes"
                   /\ markers' = BuildMarkers(o1.ret, o2.ret)
                   /\ ret' = None
    /\ lastOp' = "load" /\ args' = NoArgs
    /\ UNCHANGED <<envVars, testMark, testState, probeCalls, decoCalls>>

----------------------------------------------------------------------------
(* Calls of the helpers after load *)

PureCall(op, a, r, att) ==
    /\ loaded = "yes"
    /\ lastOp' = op /\ args' = a /\ ret' = r /\ attempts' = att
    /\ UNCHANGED <<envVars, backend, useCalls, loaded, markers, testMark,
                   testState, probeCalls, decoCalls>>

MplCall(op, o) ==
    /\ loaded = "yes"
    /\ useCalls < MaxCalls
    /\ lastOp' = op /\ args' = NoArgs /\ ret' = o.ret
    /\ attempts' = o.attempts
    /\ backend' = o.backend
    /\ useCalls' = useCalls + o.uses
    /\ UNCHANGED <<envVars, loaded, markers, testMark, testState, probeCalls,
                   decoCalls>>

CallSafeImport(name, min) ==
    PureCall("safe_import", CallArgs(name, min), SafeImport(name, min),
             <<name>>)

CallSkipIfNoMpl == MplCall("_skip_if_no_mpl", SkipIfNoMpl(backend))

CallSkipIfMpl15 == MplCall("_skip_if_mpl_1_5", SkipIfMpl15(backend))

CallSkipIfHasLocale ==
    PureCall("_skip_if_has_locale", NoArgs, SkipIfHasLocale, <<>>)

CallSkipIfNotUsLocale ==
    PureCall("_skip_if_not_us_locale", NoArgs, SkipIfNotUsLocale, <<>>)

CallSkipIfNoScipy ==
    PureCall("_skip_if_no_scipy", NoArgs, SkipIfNoScipy.ret,
             SkipIfNoScipy.attempts)

\* A runner whose marker is evaluated when the test is reached: the marker
\* is built again from the environment of that moment.
RunMarkedTestRefresh(m) ==
    LET fresh == BuildMarkers(SkipIfNoMpl(backend).ret,
                              SkipIfMpl15(backend).ret)
    IN  /\ loaded = "yes"
        /\ markers' = [markers EXCEPT ![m] = fresh[m]]
        /\ lastOp' = "run_marked_test" /\ args' = CallArgs(m, NoneStr)
        /\ ret' = IF Truthy(fresh[m].cond) THEN Skipped ELSE Executed
        /\ attempts' = <<>>
        /\ UNCHANGED <<envVars, backend, useCalls, loaded, testMark,
                       testState, probeCalls, decoCalls>>

\* The test runner reaches a test that carries the static marker m: skipif
\* skips it when bool(cond) is true.
RunMarkedTest(m) ==
    PureCall("run_marked_test", CallArgs(m, NoneStr),
             IF Truthy(markers[m].cond) THEN Skipped ELSE Executed, <<>>)

----------------------------------------------------------------------------
(* skip_if_no(package, min_version) and the test it decorates *)

\* The reason string decorated_func formats.
Reason(package, min_version) ==
    <<"Could not import '", package, "'">>
        \o (IF TruthyStr(min_version)
            THEN <<" satisfying a min_version of ">> \o min_version.s
            ELSE <<>>)

\* decorated_func(func): the probe runs here, once, and its negation is the
\* condition of the mark.
Decorate(package, min_version) ==
    /\ loaded = "yes"
    /\ decoCalls < MaxCalls
    /\ LET r == SafeImport(package, min_version)
       IN  /\ ret' = r
           /\ IF r.kind = "raise"
              THEN testMark' = Unset /\ testState' = "error"
              ELSE /\ testMark' = SkipIf(PyBool(~Truthy(r)),
                                         Reason(package, min_version))
                   /\ testState' = "decorated"
    /\ probeCalls' = probeCalls + 1
    /\ decoCalls' = decoCalls + 1
    /\ lastOp' = "decorate" /\ args' = CallArgs(package, min_version)
    /\ attempts' = <<package>>
    /\ UNCHANGED <<envVars, backend, useCalls, loaded, markers>>

\* A runner for which the mark probes when the test is reached.
RunTestLazy ==
    /\ testState = "decorated"
    /\ \E min \in Floors :
          /\ testMark.reason = Reason(Pkg, min)
          /\ testState' = IF Truthy(SafeImport(Pkg, min)) THEN "executed"
                           ELSE "skipped"
    /\ probeCalls' = probeCalls + 1
    /\ lastOp' = "run_test" /\ args' = NoArgs /\ ret' = None
    /\ attempts' = <<>>
    /\ UNCHANGED <<envVars, backend, useCalls, loaded, markers, testMark,
                   decoCalls>>

\* The test runner reaches the decorated test.
RunTest ==
    /\ testState = "decorated"
    /\ testState' = IF Truthy(testMark.cond) THEN "skipped" ELSE "executed"
    /\ lastOp' = "run_test" /\ args' = NoArgs /\ ret' = None
    /\ attempts' = <<>>
    /\ UNCHANGED <<envVars, backend, useCalls, loaded, markers, testMark,
                   probeCalls, decoCalls>>

----------------------------------------------------------------------------
(* Spec: module load, the static markers, the helpers and the environment *)

Init ==
    /\ importable \in SUBSET LibModules
    /\ \E v \in MplVersions :
          version = [m \in Modules |-> IF m = Mpl THEN Str(v) ELSE NoAttr]
    /\ lang \in Langs
    /\ \E p \in Platforms : is32 = p[1] /\ isWin = p[2] /\ PY3 = p[3]
    /\ backend = "default" /\ useCalls = 0
    /\ loaded = "no" /\ markers = NoMarkers
    /\ lastOp = "init" /\ args = NoArgs /\ ret = None /\ attempts = <<>>
    /\ testMark = Unset /\ testState = "new"
    /\ probeCalls = 0 /\ decoCalls = 0

Next ==
    \/ Load
    \/ CallSkipIfNoMpl
    \/ CallSkipIfMpl15
    \/ CallSkipIfHasLocale
    \/ CallSkipIfNotUsLocale
    \/ CallSkipIfNoScipy
    \/ \E a \in LibCalls : CallSafeImport(a.name, a.min)
    \/ \E m \in MarkerNames : RunMarkedTest(m)
    \/ \E m \in LibModules : Install(m)
    \/ \E m \in LibModules : Uninstall(m)
    \/ \E l \in Langs : SetLocale(l)

Spec == Init /\ [][Next]_vars

----------------------------------------------------------------------------
(* SpecDeco: the life cycle of a test decorated with skip_if_no, in a       *)
(* process that loaded the module with none of the libraries installed      *)

InitLoaded ==
    /\ lang = LangNone
    /\ is32 = FALSE /\ isWin = FALSE
    /\ backend = "default" /\ useCalls = 0
    /\ loaded = "yes"
    /\ markers = BuildMarkers(SkipIfNoMpl(backend).ret,
                              SkipIfMpl15(backend).ret)
    /\ ret = None /\ attempts = <<>>
    /\ testMark = Unset /\ testState = "new"
    /\ probeCalls = 0 /\ decoCalls = 0

InitDeco ==
    /\ importable \in SUBSET {Pkg}
    /\ \E v \in PkgVersions :
          version = [m \in Modules |-> IF m = Pkg THEN v ELSE NoAttr]
    /\ PY3 \in BOOLEAN
    /\ lastOp = "load" /\ args = NoArgs
    /\ InitLoaded

NextDeco ==
    \/ \E min \in Floors : Decorate(Pkg, min)
    \/ RunTest
    \/ \E min \in Floors : CallSafeImport(Pkg, min)
    \/ Install(Pkg)
    \/ Uninstall(Pkg)
    \/ \E v \in PkgVersions : SetVersion(Pkg, v)

SpecDeco == InitDeco /\ [][NextDeco]_vars

----------------------------------------------------------------------------
(* SpecProbe: safe_import as a function of its arguments and of what the    *)
(* named module is, over every short version string                         *)

InitProbe ==
    /\ importable \in SUBSET {Pkg}
    /\ \E v \in {NoAttr, NoneStr} \cup {Str(x) : x \in Strings(MaxLen)} :
          version = [m \in Modules |-> IF m = Pkg THEN v ELSE NoAttr]
    /\ PY3 \in BOOLEAN
    /\ lastOp = "init"
    /\ \E min \in {NoneStr} \cup {Str(x) : x \in Strings(MaxLen)} :
          args = CallArgs(Pkg, min)
    /\ InitLoaded

ProbeCall ==
    /\ lastOp = "init"
    /\ PureCall("safe_import", args, SafeImport(args.name, args.min),
                <<args.name>>)

NextProbe == ProbeCall

SpecProbe == InitProbe /\ [][NextProbe]_vars

----------------------------------------------------------------------------
(* Claims.  A state that follows a call has the environment of the call:    *)
(* every change of the environment sets lastOp to "env".                    *)

\* C1: with no min_version, safe_import(name) returns the module if and only
\* if the name can be imported and False otherwise, and the condition that
\* skip_if_no(name) attaches is true exactly when the name cannot be
\* imported.
C1_ImportDecides ==
    /\ (lastOp = "safe_import" /\ ~TruthyStr(args.min)) =>
          ret = IF args.name \in importable THEN Module(TopLevel(args.name))
                ELSE False
    /\ (lastOp = "decorate" /\ ~TruthyStr(args.min)) =>
          /\ testState = "decorated"
          /\ testMark.cond = PyBool(args.name \notin importable)

C1_Witness ==
    /\ lastOp = "decorate" /\ args = CallArgs(Pkg, NoneStr)
    /\ Pkg \notin importable
    /\ testMark.cond = True

\* The components of a version string are all numbers: it holds digits and
\* dots only.
Numeric(vstring) == \A i \in 1..Len(vstring) : vstring[i] \in Digits \cup {"."}

\* C2: for an importable package that exposes a version string, and any
\* given min_version, safe_import returns the module if and only if the
\* installed version is greater than or equal to min_version under the
\* component-wise comparison, and returns False otherwise.
C2_VersionFloor ==
    (/\ lastOp = "safe_import"
     /\ args.name \in importable
     /\ TruthyStr(version[args.name])
     /\ args.min.kind = "str") =>
        ret = IF LooseCmp(version[args.name].s, args.min.s, PY3)
                    \in {"gt", "eq"}
              THEN Module(TopLevel(args.name))
              ELSE False

\* C2 where both version strings hold numeric components only: there the
\* comparison never meets an int and a str, and the floor decides.
C2_NumericFloor ==
    (/\ lastOp = "safe_import"
     /\ args.name \in importable
     /\ TruthyStr(version[args.name])
     /\ args.min.kind = "str"
     /\ Numeric(version[args.name].s) /\ Numeric(args.min.s)) =>
        ret = IF LooseCmp(version[args.name].s, args.min.s, FALSE)
                    \in {"gt", "eq"}
              THEN Module(TopLevel(args.name))
              ELSE False

\* C3: no exception leaves safe_import: every failure resolves to False, and
\* an importable module with no version attribute and a given min_version
\* yields False.
C3_NoException ==
    lastOp = "safe_import" =>
        /\ ret.kind # "raise"
        /\ (/\ args.name \in importable
            /\ version[args.name].kind = "absent"
            /\ TruthyStr(args.min)) => ret = False

C5_Locale ==
    /\ lastOp = "_skip_if_has_locale" => (Truthy(ret) <=> lang # LangNone)
    /\ lastOp = "_skip_if_not_us_locale" =>
          (Truthy(ret) <=> lang # Lang("en_US"))
    /\ (lastOp = "load" /\ loaded = "yes") =>
          /\ Truthy(markers["skip_if_has_locale"].cond) <=> lang # LangNone
          /\ Truthy(markers["skip_if_not_us_locale"].cond)
                <=> lang # Lang("en_US")

C5_Witness ==
    /\ lastOp = "_skip_if_not_us_locale" /\ lang = LangNone /\ ret = True

StaticReason(m, l) ==
    CASE m = "skip_if_no_mpl" -> <<"Missing matplotlib dependency">>
      [] m = "skip_if_mpl_1_5" -> <<"matplotlib 1.5">>
      [] m = "skip_if_32bit" -> <<"skipping for 32 bit">>
      [] m = "skip_if_windows" -> <<"Running on Windows">>
      [] m = "skip_if_windows_python_3" -> <<"not used on python3/win32">>
      [] m = "skip_if_has_locale" -> <<"Specific locale is set ", FormatLang(l)>>
      [] m = "skip_if_not_us_locale" ->
            <<"Specific locale is set ", FormatLang(l)>>
      [] m = "skip_if_no_scipy" -> <<"Missing SciPy requirement">>

\* C7: each static marker gets its condition and reason when the module is
\* loaded, from the environment of that moment, and no later step changes
\* them: not a change of locale or of package availability, not a test that
\* consumes the marker.
C7_MarkersFixedAtLoad ==
    [][/\ (loaded = "no" /\ loaded' = "yes") =>
             /\ \A m \in MarkerNames :
                   markers'[m].reason = StaticReason(m, lang)
             /\ markers'["skip_if_32bit"].cond = PyBool(is32)
             /\ markers'["skip_if_windows"].cond = PyBool(isWin)
             /\ markers'["skip_if_windows_python_3"].cond
                   = PyBool(isWin /\ PY3)
             /\ Truthy(markers'["skip_if_no_mpl"].cond)
                   <=> Mpl \notin importable
             /\ Truthy(markers'["skip_if_has_locale"].cond)
                   <=> lang # LangNone
       /\ loaded = "yes" => (markers' = markers /\ loaded' = "yes")
       /\ loaded' = "no" => markers' = NoMarkers]_vars

\* The locale was de_DE at load and is unset when a test consumes a marker:
\* the marker still carries the language of the load.
C7_Witness ==
    /\ loaded = "yes" /\ lastOp = "run_marked_test"
    /\ args.name = "skip_if_has_locale" /\ ret = Skipped
    /\ lang = LangNone
    /\ markers["skip_if_has_locale"]
          = SkipIf(True, <<"Specific locale is set ", "de_DE">>)

\* The operations that are calls into the module.
ModuleOps ==
    {"load", "safe_import", "_skip_if_no_mpl", "_skip_if_mpl_1_5",
     "_skip_if_has_locale", "_skip_if_not_us_locale", "_skip_if_no_scipy"}

\* C8: no helper changes the environment except for the backend: the locale,
\* platform and scipy predicates and safe_import leave locale, platform,
\* importable modules and backend alone, and the backend is set to "Agg"
\* only by the matplotlib helpers (called directly or by the module-level
\* code) and only when the import of matplotlib succeeded.
C8_Frame ==
    [][/\ lastOp' \in ModuleOps => UNCHANGED envVars
       /\ lastOp' \in ModuleOps \ {"load", "_skip_if_no_mpl", "_skip_if_mpl_1_5"}
             => UNCHANGED <<backend, useCalls>>
       /\ (backend' # backend \/ useCalls' # useCalls) =>
             /\ lastOp' \in {"load", "_skip_if_no_mpl", "_skip_if_mpl_1_5"}
             /\ Mpl \in importable
             /\ backend' = "Agg"]_vars

\* _skip_if_no_mpl ran where matplotlib cannot be imported, and the backend
\* is untouched.
C8_Witness ==
    /\ lastOp = "_skip_if_no_mpl" /\ Mpl \notin importable
    /\ ret = True /\ backend = "default" /\ useCalls = 0

\* Whether a matplotlib version is greater than 1.4.3 or begins with "0",
\* for the versions the environment holds.
Mpl15Expected(v) == v.s \in {<<"0", ".", "9">>, <<"1", ".", "1", "0">>}

\* C9: the condition of skip_if_mpl_1_5 is true if and only if matplotlib is
\* importable and its version is greater than 1.4.3 or begins with "0"; it
\* is falsy when matplotlib cannot be imported; and the helper reconfigures
\* the backend only when matplotlib is importable and the condition is
\* falsy.
C9_Mpl15 ==
    [][/\ (loaded = "no" /\ loaded' = "yes") =>
             (Truthy(markers'["skip_if_mpl_1_5"].cond)
                 <=> (Mpl \in importable /\ Mpl15Expected(version[Mpl])))
       /\ lastOp' = "_skip_if_mpl_1_5" =>
             /\ Truthy(ret')
                   <=> (Mpl \in importable /\ Mpl15Expected(version[Mpl]))
             /\ useCalls' # useCalls =>
                   (Mpl \in importable /\ ~Truthy(ret') /\ backend' = "Agg")]_vars

\* matplotlib 1.10 is newer than 1.4.3 although "1.10" sorts before "1.4.3"
\* as text.
C9_Witness ==
    /\ lastOp = "load" /\ loaded = "yes" /\ Mpl \in importable
    /\ version[Mpl] = Str(<<"1", ".", "1", "0">>)
    /\ markers["skip_if_mpl_1_5"].cond = True

\* The imports _skip_if_no_scipy is expected to attempt: in order, up to and
\* including the first that fails.
ScipyOrder == <<ScipyStats, ScipySparse, ScipyInterpolate>>
ScipyExpectedAttempts ==
    IF \A i \in 1..3 : ScipyOrder[i] \in importable THEN ScipyOrder
    ELSE SubSeq(ScipyOrder, 1,
                CHOOSE i \in 1..3 :
                    /\ ScipyOrder[i] \notin importable
                    /\ \A j \in 1..(i - 1) : ScipyOrder[j] \in importable)

\* C10: the condition of skip_if_no_scipy is true if and only if at least
\* one of scipy.stats, scipy.sparse and scipy.interpolate cannot be
\* imported; the imports are attempted in that order and none is attempted
\* after one has failed.
C10_Scipy ==
    /\ lastOp = "_skip_if_no_scipy" =>
          /\ ret = PyBool(~(LibModules \ {Mpl} \subseteq importable))
          /\ attempts = ScipyExpectedAttempts
    /\ (lastOp = "load" /\ loaded = "yes") =>
          /\ markers["skip_if_no_scipy"].cond
                = PyBool(~(LibModules \ {Mpl} \subseteq importable))
          /\ attempts = <<Mpl, Mpl>> \o ScipyExpectedAttempts

C10_Witness ==
    /\ lastOp = "_skip_if_no_scipy" /\ ret = True
    /\ importable \cap (LibModules \ {Mpl}) = {ScipyStats, ScipyInterpolate}
    /\ attempts = <<ScipyStats, ScipySparse>>

====
